---- MODULE Spec2Model ----
(***************************************************************************)
(* Model of the drawing canvas component DigitalArtCanvas                  *)
(* (src/src/pages/DigitalCanvas.jsx, lines 1-342): the React state of the  *)
(* component, the canvas and overlay surfaces it paints on, the image      *)
(* loads started by restoreCanvas, and one action per event handler.       *)
(*                                                                         *)
(* The canvas is observed at the sample points Points; a point is painted  *)
(* by a stroke when it lies within lineWidth / 2 of the                    *)
(* stroked path (lineCap and lineJoin are "round", so this is the stroked  *)
(* region exactly).  All geometry is integer arithmetic on squared         *)
(* distances.  Handlers are React event handlers: each runs to completion  *)
(* and the component re-renders before the next event, so a handler reads  *)
(* the state as the previous handler left it.                              *)
(***************************************************************************)
EXTENDS Integers, Sequences, FiniteSets, TLC

\* Bounds of the model.
MaxCoord == 1
MaxHistory == 2
MaxPending == 1
MaxResize == 1
MaxViewport == 1
MaxOps == 2
MaxInFlight == 2
MaxGrid == 4

\* Values of the program.
DefaultBrushSize == 5
DefaultLineWidth == 1
DefaultColor == "#000000"
Transparent == "transparent"
Null == [kind |-> "null"]

Modes == {"draw", "erase", "rectangle", "circle"}
Colors == {DefaultColor}
BrushSizes == {DefaultBrushSize}
Viewports == 1..MaxViewport

\* The canvas is observed at sample points on its diagonal, Stride pixels
\* apart; pointer events arrive at the same points.
Stride == 3
Points == {[x |-> Stride * k, y |-> Stride * k] : k \in 0..MaxCoord}

\* Pointer positions of the sessions that exercise the geometry: every pixel
\* of a (MaxGrid + 1) x (MaxGrid + 1) corner of the canvas.
Grid == {[x |-> i, y |-> j] : i \in 0..MaxGrid, j \in 0..MaxGrid}

VARIABLES
    isDrawing, brushColor, brushSize, mode, startPos, history, redoStack,
    surface, viewport, ctx, overlays, pending,
    lastEvent, exported, fault,
    phase, nOps, nUndo, nRedo, atDown, afterOps

stateVars == <<isDrawing, brushColor, brushSize, mode, startPos, history, redoStack>>
canvasVars == <<surface, viewport, ctx, overlays, pending>>
eventVars == <<lastEvent, exported, fault>>
scenarioVars == <<phase, nOps, nUndo, nRedo, atDown, afterOps>>
vars == <<stateVars, canvasVars, eventVars, scenarioVars>>

----------------------------------------------------------------------------
\* Pixels, snapshots and rendering.

Blank == [p \in Points |-> Transparent]

EmptyOverlay == [kind |-> "empty"]

\* canvas.toDataURL(): the PNG encoding carries the canvas dimensions and
\* its pixels.
ToDataURL(vp, px) == [size |-> vp, px |-> px]

\* The pixels an Image decoded from a data URL paints with drawImage(img, 0, 0).
DecodeImage(url) == url.px

Last(s) == s[Len(s)]
Front(s) == SubSeq(s, 1, Len(s) - 1)
Tail2(s) == SubSeq(s, 2, Len(s))

Sq(n) == n * n
Dist2(p, q) == Sq(p.x - q.x) + Sq(p.y - q.y)

\* c lies within lw / 2 of the segment from p to q (round caps).
NearSegment(c, p, q, lw) ==
    LET dx == q.x - p.x
        dy == q.y - p.y
        len2 == Sq(dx) + Sq(dy)
        t == (c.x - p.x) * dx + (c.y - p.y) * dy
        cross == (c.x - p.x) * dy - (c.y - p.y) * dx
    IN  IF t <= 0 THEN 4 * Dist2(c, p) <= Sq(lw)
        ELSE IF t >= len2 THEN 4 * Dist2(c, q) <= Sq(lw)
        ELSE 4 * Sq(cross) <= Sq(lw) * len2

\* The lattice points a stroke of width lw paints along the segment from p
\* to q: a zero-length segment is pruned from the path and paints nothing.
SegmentPoints(p, q, lw) ==
    IF p = q THEN {} ELSE {c \in Points : NearSegment(c, p, q, lw)}

\* fill the points of region with color (ctx.stroke(), ctx.strokeRect()).
Paint(px, region, color) ==
    [c \in Points |-> IF c \in region THEN color ELSE px[c]]

\* The outline of strokeRect(x, y, w, h): its four sides, round joins;
\* nothing when w and h are both zero.
RectPoints(a, w, h, lw) ==
    LET b == [x |-> a.x + w, y |-> a.y]
        c == [x |-> a.x + w, y |-> a.y + h]
        d == [x |-> a.x, y |-> a.y + h]
    IN  SegmentPoints(a, b, lw) \cup SegmentPoints(b, c, lw)
            \cup SegmentPoints(c, d, lw) \cup SegmentPoints(d, a, lw)

\* The outline of strokeRect(x, y, w, h) on a context left at its defaults
\* (lineJoin "miter", lineCap "butt"), as the overlay's is: the band between
\* the box grown and the box shrunk by lw / 2, with square corners; a line
\* without caps when one of w and h is zero; nothing when both are.
\* Coordinates are doubled to stay in the integers.
MiterRectPoints(a, w, h, lw) ==
    LET x0 == IF w < 0 THEN a.x + w ELSE a.x
        x1 == IF w < 0 THEN a.x ELSE a.x + w
        y0 == IF h < 0 THEN a.y + h ELSE a.y
        y1 == IF h < 0 THEN a.y ELSE a.y + h
        gx == IF h = 0 THEN 0 ELSE lw
        gy == IF w = 0 THEN 0 ELSE lw
    IN  IF w = 0 /\ h = 0
        THEN {}
        ELSE {c \in Points :
                /\ 2 * x0 - gx <= 2 * c.x /\ 2 * c.x <= 2 * x1 + gx
                /\ 2 * y0 - gy <= 2 * c.y /\ 2 * c.y <= 2 * y1 + gy
                /\ ~ /\ 2 * x0 + lw < 2 * c.x /\ 2 * c.x < 2 * x1 - lw
                     /\ 2 * y0 + lw < 2 * c.y /\ 2 * c.y < 2 * y1 - lw}

\* c lies within lw / 2 of the circle of squared radius r2 around a:
\* | sqrt(d2) - sqrt(r2) | <= lw / 2, squared twice to stay in the integers.
\* A radius of zero adds a single point to the path, which strokes nothing.
NearCircle(c, a, r2, lw) ==
    LET d2 == Dist2(c, a)
        k == 4 * (d2 + r2) - Sq(lw)
    IN  /\ r2 > 0
        /\ \/ k <= 0
           \/ Sq(k) <= 64 * d2 * r2

\* arc(x, y, radius, 0, 2 * Math.PI) stroked with width lw.
CirclePoints(a, r2, lw) == {c \in Points : NearCircle(c, a, r2, lw)}

\* clearRect(x - size / 2, y - size / 2, size, size): the points of the closed
\* square, in doubled coordinates.
InEraseSquare(c, p, size) ==
    /\ 2 * p.x - size <= 2 * c.x
    /\ 2 * c.x <= 2 * p.x + size
    /\ 2 * p.y - size <= 2 * c.y
    /\ 2 * c.y <= 2 * p.y + size

\* clearRect(x, y, size, size): the square with its top-left corner at the
\* pointer.
ClearSquareTopLeft(px, p, size) ==
    [c \in Points |->
        IF p.x <= c.x /\ c.x <= p.x + size /\ p.y <= c.y /\ c.y <= p.y + size
        THEN Transparent
        ELSE px[c]]

ClearSquare(px, p, size) ==
    [c \in Points |-> IF InEraseSquare(c, p, size) THEN Transparent ELSE px[c]]

\* The 2d context: strokeStyle, lineWidth and the current path.  The path is
\* kept as its current point (pen) and the lattice points its stroke covers
\* (inked); lineWidth never changes during the life of a path.
DefaultContext ==
    [pen |-> Null, inked |-> {}, strokeStyle |-> DefaultColor, lineWidth |-> DefaultLineWidth]

\* ctx.beginPath(); ctx.moveTo(x, y)
MoveTo(c, p) == [c EXCEPT !.pen = p, !.inked = {}]

\* ctx.lineTo(x, y): on an empty path it only sets the current point.
LineTo(c, p) ==
    IF c.pen = Null
    THEN [c EXCEPT !.pen = p]
    ELSE [c EXCEPT !.pen = p, !.inked = @ \cup SegmentPoints(c.pen, p, c.lineWidth)]

\* ctx.beginPath(); ctx.arc(x, y, radius, 0, 2 * Math.PI)
Arc(c, a, r2) == [c EXCEPT !.pen = Null, !.inked = CirclePoints(a, r2, c.lineWidth)]

----------------------------------------------------------------------------
\* The component after mount: useState initial values and setupCanvas().

Init ==
    /\ isDrawing = FALSE
    /\ brushColor = DefaultColor
    /\ brushSize = DefaultBrushSize
    /\ mode = "draw"
    /\ startPos = Null
    /\ history = <<>>
    /\ redoStack = <<>>
    /\ surface = Blank
    /\ viewport = 1
    /\ ctx = DefaultContext
    /\ overlays = <<EmptyOverlay>>
    /\ pending = <<>>
    /\ lastEvent = "mount"
    /\ exported = Null
    /\ fault = FALSE
    /\ phase = "ops"
    /\ nOps = 0
    /\ nUndo = 0
    /\ nRedo = 0
    /\ atDown = Blank
    /\ afterOps = Blank

\* What an event leaves behind besides the state: its name, the file it
\* downloaded (if any) and whether its handler threw.
Event(name, file, threw) ==
    /\ lastEvent' = name
    /\ exported' = file
    /\ fault' = threw

\* saveHistory() without the comparison with the last entry.
SaveHistoryAlways(url) ==
    /\ history' = Append(history, url)
    /\ redoStack' = <<>>

\* saveHistory(), given the encoding of the canvas at the call.
SaveHistory(url) ==
    IF Len(history) = 0 \/ Last(history) # url
    THEN /\ history' = Append(history, url)
         /\ redoStack' = <<>>
    ELSE /\ history' = history
         /\ redoStack' = redoStack

\* restoreCanvas(imageData): starts an image load; onload runs later.
RestoreCanvas(imageData) == pending' = Append(pending, imageData)

\* undo() replacing the redo stack by the popped entry instead of pushing
\* the entry on its front.
UndoForgetsRedo ==
    /\ Event("undo", Null, FALSE)
    /\ IF Len(history) > 1
       THEN /\ redoStack' = <<Last(history)>>
            /\ history' = Front(history)
            /\ RestoreCanvas(Last(Front(history)))
            /\ UNCHANGED <<isDrawing, brushColor, brushSize, mode, startPos>>
            /\ UNCHANGED <<surface, viewport, ctx, overlays>>
       ELSE UNCHANGED <<stateVars, canvasVars>>

\* undo() that also resets the tool: mode "draw", no anchor.
UndoResetsTool ==
    /\ Event("undo", Null, FALSE)
    /\ IF Len(history) > 1
       THEN /\ redoStack' = <<Last(history)>> \o redoStack
            /\ history' = Front(history)
            /\ RestoreCanvas(Last(Front(history)))
            /\ mode' = "draw"
            /\ startPos' = Null
            /\ UNCHANGED <<isDrawing, brushColor, brushSize>>
            /\ UNCHANGED <<surface, viewport, ctx, overlays>>
       ELSE UNCHANGED <<stateVars, canvasVars>>

\* undo() taking the oldest entry (shift) instead of the newest (pop).
UndoShift ==
    /\ Event("undo", Null, FALSE)
    /\ IF Len(history) > 1
       THEN /\ redoStack' = <<history[1]>> \o redoStack
            /\ history' = Tail2(history)
            /\ RestoreCanvas(Last(history))
            /\ UNCHANGED <<isDrawing, brushColor, brushSize, mode, startPos>>
            /\ UNCHANGED <<surface, viewport, ctx, overlays>>
       ELSE UNCHANGED <<stateVars, canvasVars>>

\* undo() guarded by history.length > 0: it pops the only entry, and
\* restoreCanvas(undefined) loads nothing.
UndoOffByOne ==
    /\ Event("undo", Null, FALSE)
    /\ IF Len(history) > 0
       THEN /\ redoStack' = <<Last(history)>> \o redoStack
            /\ history' = Front(history)
            /\ IF Len(history) > 1
               THEN RestoreCanvas(Last(Front(history)))
               ELSE pending' = pending
            /\ UNCHANGED <<isDrawing, brushColor, brushSize, mode, startPos>>
            /\ UNCHANGED <<surface, viewport, ctx, overlays>>
       ELSE UNCHANGED <<stateVars, canvasVars>>

\* undo()
Undo ==
    /\ Event("undo", Null, FALSE)
    /\ IF Len(history) > 1
       THEN /\ redoStack' = <<Last(history)>> \o redoStack
            /\ history' = Front(history)
            /\ RestoreCanvas(Last(Front(history)))
            /\ UNCHANGED <<isDrawing, brushColor, brushSize, mode, startPos>>
            /\ UNCHANGED <<surface, viewport, ctx, overlays>>
       ELSE UNCHANGED <<stateVars, canvasVars>>

\* redo() without setRedoStack(redoStack.slice(1)): the entry it appends
\* stays at the front of the redo stack.
RedoKeepsStack ==
    /\ Event("redo", Null, FALSE)
    /\ IF Len(redoStack) > 0
       THEN /\ history' = Append(history, redoStack[1])
            /\ redoStack' = redoStack
            /\ RestoreCanvas(redoStack[1])
            /\ UNCHANGED <<isDrawing, brushColor, brushSize, mode, startPos>>
            /\ UNCHANGED <<surface, viewport, ctx, overlays>>
       ELSE UNCHANGED <<stateVars, canvasVars>>

\* redo()
Redo ==
    /\ Event("redo", Null, FALSE)
    /\ IF Len(redoStack) > 0
       THEN /\ history' = Append(history, redoStack[1])
            /\ redoStack' = Tail2(redoStack)
            /\ RestoreCanvas(redoStack[1])
            /\ UNCHANGED <<isDrawing, brushColor, brushSize, mode, startPos>>
            /\ UNCHANGED <<surface, viewport, ctx, overlays>>
       ELSE UNCHANGED <<stateVars, canvasVars>>

\* img.onload of the i-th image load in flight: loads complete in any order.
ImageLoad(i) ==
    /\ i \in 1..Len(pending)
    /\ Event("load", Null, FALSE)
    /\ surface' = DecodeImage(pending[i])
    /\ pending' = SubSeq(pending, 1, i - 1) \o SubSeq(pending, i + 1, Len(pending))
    /\ UNCHANGED <<stateVars, viewport, ctx, overlays>>

\* startDrawing(e), the pointer at p.
StartDrawing(p) ==
    /\ Event("mousedown", Null, FALSE)
    /\ SaveHistory(ToDataURL(viewport, surface))
    /\ ctx' = MoveTo([ctx EXCEPT !.strokeStyle = brushColor, !.lineWidth = brushSize], p)
    /\ isDrawing' = TRUE
    /\ startPos' = IF mode \in {"rectangle", "circle"} THEN p ELSE startPos
    /\ UNCHANGED <<brushColor, brushSize, mode, surface, viewport, overlays, pending>>

\* The sample points an overlay shows painted: the outline its last preview
\* stroked, nothing after a clearRect.  setupCanvas sets round caps and joins
\* on the canvas context only, so the overlay strokes with mitered corners.
OverlayPoints(o) ==
    IF o.kind = "rectangle"
    THEN MiterRectPoints([x |-> o.x, y |-> o.y], o.w, o.h, o.lineWidth)
    ELSE IF o.kind = "circle"
    THEN CirclePoints([x |-> o.x, y |-> o.y], o.r2, o.lineWidth)
    ELSE {}

\* The overlay after the preview of draw(e) in a shape mode.
Preview(a, p) ==
    LET w == p.x - a.x
        h == p.y - a.y
    IN  IF mode = "rectangle"
        THEN [kind |-> "rectangle", x |-> a.x, y |-> a.y, w |-> w, h |-> h,
              color |-> brushColor, lineWidth |-> brushSize]
        ELSE [kind |-> "circle", x |-> a.x, y |-> a.y, r2 |-> Sq(w) + Sq(h),
              color |-> brushColor, lineWidth |-> brushSize]

SetOverlay(o) == overlays' = [overlays EXCEPT ![Len(overlays)] = o]

\* draw(e) stroking the preview on the canvas itself instead of the overlay.
DrawOnCanvas(p) ==
    /\ exported' = Null
    /\ lastEvent' = "mousemove"
    /\ IF ~isDrawing
       THEN /\ fault' = FALSE
            /\ UNCHANGED <<stateVars, canvasVars>>
       ELSE /\ UNCHANGED <<stateVars, viewport, pending>>
            /\ \/ /\ mode = "draw"
                  /\ ctx' = LineTo(ctx, p)
                  /\ surface' = Paint(surface, LineTo(ctx, p).inked, ctx.strokeStyle)
                  /\ fault' = FALSE
                  /\ UNCHANGED overlays
               \/ /\ mode = "erase"
                  /\ surface' = ClearSquare(surface, p, brushSize)
                  /\ fault' = FALSE
                  /\ UNCHANGED <<ctx, overlays>>
               \/ /\ mode \in {"rectangle", "circle"}
                  /\ startPos # Null
                  /\ surface' = Paint(surface, OverlayPoints(Preview(startPos, p)), brushColor)
                  /\ fault' = FALSE
                  /\ UNCHANGED <<ctx, overlays>>
               \/ /\ mode \in {"rectangle", "circle"}
                  /\ startPos = Null
                  /\ fault' = TRUE
                  /\ UNCHANGED <<ctx, surface, overlays>>

\* draw(e), the pointer at p.
Draw(p) ==
    /\ exported' = Null
    /\ lastEvent' = "mousemove"
    /\ IF ~isDrawing
       THEN /\ fault' = FALSE
            /\ UNCHANGED <<stateVars, canvasVars>>
       ELSE /\ UNCHANGED <<stateVars, viewport, pending>>
            /\ \/ /\ mode = "draw"
                  /\ ctx' = LineTo(ctx, p)
                  /\ surface' = Paint(surface, LineTo(ctx, p).inked, ctx.strokeStyle)
                  /\ fault' = FALSE
                  /\ UNCHANGED overlays
               \/ /\ mode = "erase"
                  /\ surface' = ClearSquare(surface, p, brushSize)
                  /\ fault' = FALSE
                  /\ UNCHANGED <<ctx, overlays>>
               \/ /\ mode \in {"rectangle", "circle"}
                  /\ startPos # Null
                  /\ SetOverlay(Preview(startPos, p))
                  /\ fault' = FALSE
                  /\ UNCHANGED <<ctx, surface>>
               \/ /\ mode \in {"rectangle", "circle"}
                  /\ startPos = Null
                  /\ SetOverlay(EmptyOverlay)
                  /\ fault' = TRUE
                  /\ UNCHANGED <<ctx, surface>>

\* The commit with the horizontal distance alone taken as the radius.
CommitRadiusOfWidth(a, p) ==
    LET w == p.x - a.x
        h == p.y - a.y
    IN  IF mode = "rectangle"
        THEN Paint(surface, RectPoints(a, w, h, ctx.lineWidth), ctx.strokeStyle)
        ELSE IF mode = "circle"
        THEN Paint(surface, Arc(ctx, a, Sq(w)).inked, ctx.strokeStyle)
        ELSE surface

\* The commit with the width and height clamped to non-negative values.
CommitClamped(a, p) ==
    LET w == IF p.x > a.x THEN p.x - a.x ELSE 0
        h == IF p.y > a.y THEN p.y - a.y ELSE 0
    IN  IF mode = "rectangle"
        THEN Paint(surface, RectPoints(a, w, h, ctx.lineWidth), ctx.strokeStyle)
        ELSE IF mode = "circle"
        THEN Paint(surface, Arc(ctx, a, Sq(w) + Sq(h)).inked, ctx.strokeStyle)
        ELSE surface

\* The canvas after the commit of stopDrawing(e) with anchor a and release p.
Commit(a, p) ==
    LET w == p.x - a.x
        h == p.y - a.y
    IN  IF mode = "rectangle"
        THEN Paint(surface, RectPoints(a, w, h, ctx.lineWidth), ctx.strokeStyle)
        ELSE IF mode = "circle"
        THEN Paint(surface, Arc(ctx, a, Sq(w) + Sq(h)).inked, ctx.strokeStyle)
        ELSE surface

\* What the commit of stopDrawing(e) strokes with anchor a and release p: the
\* shape of the mode, in the stroke style and line width the canvas context
\* holds at the mouseup.
CommitShape(a, p) ==
    LET w == p.x - a.x
        h == p.y - a.y
    IN  IF mode = "rectangle"
        THEN [kind |-> "rectangle", x |-> a.x, y |-> a.y, w |-> w, h |-> h,
              color |-> ctx.strokeStyle, lineWidth |-> ctx.lineWidth]
        ELSE [kind |-> "circle", x |-> a.x, y |-> a.y, r2 |-> Sq(w) + Sq(h),
              color |-> ctx.strokeStyle, lineWidth |-> ctx.lineWidth]

\* stopDrawing(e) without its two early returns: reading startPos.x of a
\* null startPos throws.
StopDrawingUnguarded(ev, p) ==
    /\ lastEvent' = ev
    /\ exported' = Null
    /\ isDrawing' = FALSE
    /\ UNCHANGED <<brushColor, brushSize, mode, viewport, pending>>
    /\ IF startPos = Null
       THEN /\ fault' = TRUE
            /\ UNCHANGED <<startPos, history, redoStack, surface, ctx, overlays>>
       ELSE /\ fault' = FALSE
            /\ surface' = Commit(startPos, p)
            /\ ctx' = IF mode = "circle"
                      THEN Arc(ctx, startPos, Dist2(startPos, p))
                      ELSE ctx
            /\ SetOverlay(EmptyOverlay)
            /\ startPos' = Null
            /\ SaveHistory(ToDataURL(viewport, Commit(startPos, p)))

\* stopDrawing(e) without setStartPos(null): the anchor outlives the
\* operation.
StopDrawingKeepsAnchor(ev, p) ==
    /\ Event(ev, Null, FALSE)
    /\ IF ~isDrawing
       THEN UNCHANGED <<stateVars, canvasVars>>
       ELSE /\ isDrawing' = FALSE
            /\ UNCHANGED <<brushColor, brushSize, mode, viewport, pending>>
            /\ IF startPos = Null
               THEN UNCHANGED <<startPos, history, redoStack, surface, ctx, overlays>>
               ELSE /\ surface' = Commit(startPos, p)
                    /\ ctx' = IF mode = "circle"
                              THEN Arc(ctx, startPos, Dist2(startPos, p))
                              ELSE ctx
                    /\ SetOverlay(EmptyOverlay)
                    /\ startPos' = startPos
                    /\ SaveHistory(ToDataURL(viewport, Commit(startPos, p)))

\* stopDrawing(e), bound to mouseup and mouseout, the pointer at p.
StopDrawing(ev, p) ==
    /\ Event(ev, Null, FALSE)
    /\ IF ~isDrawing
       THEN UNCHANGED <<stateVars, canvasVars>>
       ELSE /\ isDrawing' = FALSE
            /\ UNCHANGED <<brushColor, brushSize, mode, viewport, pending>>
            /\ IF startPos = Null
               THEN UNCHANGED <<startPos, history, redoStack, surface, ctx, overlays>>
               ELSE /\ surface' = Commit(startPos, p)
                    /\ ctx' = IF mode = "circle"
                              THEN Arc(ctx, startPos, Dist2(startPos, p))
                              ELSE ctx
                    /\ SetOverlay(EmptyOverlay)
                    /\ startPos' = Null
                    /\ SaveHistory(ToDataURL(viewport, Commit(startPos, p)))

\* What the user sees at the sample points: the canvas under every overlay
\* appended to the document, the overlays of earlier setupCanvas calls
\* included.
Visible(px, os) ==
    [c \in Points |->
        IF \E i \in 1..Len(os) : c \in OverlayPoints(os[i])
        THEN os[CHOOSE i \in 1..Len(os) :
                /\ c \in OverlayPoints(os[i])
                /\ \A j \in (i + 1)..Len(os) : c \notin OverlayPoints(os[j])].color
        ELSE px[c]]

\* exportAsPNG() encoding what is visible, the preview overlay included.
ExportComposite ==
    /\ Event("export", ToDataURL(viewport, Visible(surface, overlays)), FALSE)
    /\ UNCHANGED <<stateVars, canvasVars>>

\* exportAsPNG()
ExportAsPNG ==
    /\ Event("export", ToDataURL(viewport, surface), FALSE)
    /\ UNCHANGED <<stateVars, canvasVars>>

\* setupCanvas() that repaints the last history entry after the resize, as
\* if the canvas content survived it.
ResizeRestores(vp) ==
    /\ Event("resize", Null, FALSE)
    /\ viewport' = vp
    /\ surface' = IF history = <<>> THEN Blank ELSE DecodeImage(Last(history))
    /\ ctx' = DefaultContext
    /\ overlays' = Append(overlays, EmptyOverlay)
    /\ UNCHANGED <<stateVars, pending>>

\* setupCanvas() on a window resize to viewport vp.
Resize(vp) ==
    /\ Event("resize", Null, FALSE)
    /\ viewport' = vp
    /\ surface' = Blank
    /\ ctx' = DefaultContext
    /\ overlays' = Append(overlays, EmptyOverlay)
    /\ UNCHANGED <<stateVars, pending>>

\* The tool buttons, the colour picker and the slider.
SetMode(m) ==
    /\ Event("setMode", Null, FALSE)
    /\ mode' = m
    /\ UNCHANGED <<isDrawing, brushColor, brushSize, startPos, history, redoStack, canvasVars>>

SetBrushColor(c) ==
    /\ Event("setBrushColor", Null, FALSE)
    /\ brushColor' = c
    /\ UNCHANGED <<isDrawing, brushSize, mode, startPos, history, redoStack, canvasVars>>

SetBrushSize(s) ==
    /\ Event("setBrushSize", Null, FALSE)
    /\ brushSize' = s
    /\ UNCHANGED <<isDrawing, brushColor, mode, startPos, history, redoStack, canvasVars>>

----------------------------------------------------------------------------
\* Every handler, at any time, in a window of fixed size.  The bounds keep
\* the history and the image loads in flight finite.

Next ==
    \/ \E p \in Points :
        /\ Len(history) + Len(redoStack) < MaxHistory
        /\ StartDrawing(p)
        /\ UNCHANGED scenarioVars
    \/ \E p \in Points : Draw(p) /\ UNCHANGED scenarioVars
    \/ \E ev \in {"mouseup", "mouseout"}, p \in Points :
        StopDrawing(ev, p) /\ UNCHANGED scenarioVars
    \/ /\ Len(pending) < MaxPending \/ Len(history) <= 1
       /\ Undo
       /\ UNCHANGED scenarioVars
    \/ /\ Len(pending) < MaxPending \/ Len(redoStack) = 0
       /\ Redo
       /\ UNCHANGED scenarioVars
    \/ \E i \in 1..MaxPending : ImageLoad(i) /\ UNCHANGED scenarioVars
    \/ ExportAsPNG /\ UNCHANGED scenarioVars
    \/ \E m \in Modes : SetMode(m) /\ UNCHANGED scenarioVars
    \/ \E c \in Colors : SetBrushColor(c) /\ UNCHANGED scenarioVars
    \/ \E s \in BrushSizes : SetBrushSize(s) /\ UNCHANGED scenarioVars

Spec == Init /\ [][Next]_vars

\* The pointer handlers, undo and redo, the mode buttons and window resizes.
NextResize ==
    \/ \E p \in Points :
        /\ Len(history) + Len(redoStack) < MaxHistory
        /\ StartDrawing(p)
        /\ UNCHANGED scenarioVars
    \/ \E p \in Points : Draw(p) /\ UNCHANGED scenarioVars
    \/ \E p \in Points : StopDrawing("mouseup", p) /\ UNCHANGED scenarioVars
    \/ /\ Len(pending) < MaxPending \/ Len(history) <= 1
       /\ Undo
       /\ UNCHANGED scenarioVars
    \/ /\ Len(pending) < MaxPending \/ Len(redoStack) = 0
       /\ Redo
       /\ UNCHANGED scenarioVars
    \/ \E i \in 1..MaxPending : ImageLoad(i) /\ UNCHANGED scenarioVars
    \/ \E m \in Modes : SetMode(m) /\ UNCHANGED scenarioVars
    \/ \E vp \in Viewports :
        /\ Len(overlays) <= MaxResize
        /\ Resize(vp)
        /\ UNCHANGED scenarioVars

SpecResize == Init /\ [][NextResize]_vars

----------------------------------------------------------------------------
\* An editing session, from the blank canvas: up to MaxOps drawing
\* operations, each in one mode and each a mousedown, mousemoves and a
\* mouseup or mouseout; then undo and redo, either one at a time, each
\* restoration completing before the next command (phases "undo", "redo"), or
\* a command issued while a restoration is still in flight (phase "race");
\* or a mousedown while the restoration of an undo is in flight (phase
\* "overlap");
\* or, after some undos, one more operation (phase "reop") and a redo (phase
\* "reredo").  The session records the canvas at the last mousedown (atDown)
\* and after the last completed operation (afterOps), and counts the
\* completed operations and the undo and redo calls.

SessionStart(p) ==
    /\ ~isDrawing
    /\ pending = <<>>
    /\ \/ phase = "ops" /\ nOps < MaxOps /\ phase' = "ops"
       \/ phase = "undo" /\ phase' = "reop"
    /\ StartDrawing(p)
    /\ atDown' = surface
    /\ UNCHANGED <<nOps, nUndo, nRedo, afterOps>>

SessionDraw(p) ==
    /\ isDrawing
    /\ Draw(p)
    /\ UNCHANGED scenarioVars

SessionStop(ev, p) ==
    /\ StopDrawing(ev, p)
    /\ IF isDrawing
       THEN /\ afterOps' = surface'
            /\ nOps' = IF phase = "ops" THEN nOps + 1 ELSE nOps
            /\ UNCHANGED <<phase, nUndo, nRedo, atDown>>
       ELSE UNCHANGED scenarioVars

SessionSetMode(m) ==
    /\ ~isDrawing
    /\ phase \in {"ops", "undo"}
    /\ SetMode(m)
    /\ UNCHANGED scenarioVars

SessionUndo ==
    /\ ~isDrawing
    /\ pending = <<>>
    /\ phase \in {"ops", "undo"}
    /\ nOps >= 1
    /\ nUndo < nOps
    /\ Undo
    /\ phase' = "undo"
    /\ nUndo' = nUndo + 1
    /\ UNCHANGED <<nOps, nRedo, atDown, afterOps>>

SessionRedo ==
    /\ ~isDrawing
    /\ pending = <<>>
    /\ \/ phase = "undo" /\ nUndo = nOps /\ phase' = "redo"
       \/ phase = "redo" /\ phase' = "redo"
       \/ phase = "reop" /\ phase' = "reredo"
    /\ nRedo < nOps
    /\ Redo
    /\ nRedo' = nRedo + 1
    /\ UNCHANGED <<nOps, nUndo, atDown, afterOps>>

SessionRace ==
    /\ ~isDrawing
    /\ pending # <<>>
    /\ Len(pending) < MaxInFlight
    /\ phase \in {"undo", "redo", "race"}
    /\ Undo \/ Redo
    /\ phase' = "race"
    /\ UNCHANGED <<nOps, nUndo, nRedo, atDown, afterOps>>

\* A mousedown while the restoration of an undo is still in flight.
SessionOverlap(p) ==
    /\ ~isDrawing
    /\ pending # <<>>
    /\ phase = "undo"
    /\ StartDrawing(p)
    /\ phase' = "overlap"
    /\ atDown' = surface
    /\ UNCHANGED <<nOps, nUndo, nRedo, afterOps>>

SessionLoad(i) ==
    /\ ImageLoad(i)
    /\ UNCHANGED scenarioVars

SessionExport ==
    /\ ~isDrawing
    /\ pending = <<>>
    /\ ExportAsPNG
    /\ UNCHANGED scenarioVars

SessionNext ==
    \/ \E p \in Points : SessionStart(p)
    \/ \E p \in Points : SessionDraw(p)
    \/ \E ev \in {"mouseup", "mouseout"}, p \in Points : SessionStop(ev, p)
    \/ \E m \in Modes : SessionSetMode(m)
    \/ SessionUndo
    \/ SessionRedo
    \/ SessionRace
    \/ \E p \in Points : SessionOverlap(p)
    \/ \E i \in 1..MaxInFlight : SessionLoad(i)
    \/ SessionExport

SpecSession == Init /\ [][SessionNext]_vars

----------------------------------------------------------------------------
\* Drawing sessions with the pointer anywhere on the grid: up to MaxOps
\* operations in any of the modes, observed at the sample points.

ShapesNext ==
    \/ \E m \in Modes : SessionSetMode(m)
    \/ \E p \in Grid : SessionStart(p)
    \/ \E p \in Grid : SessionDraw(p)
    \/ \E p \in Grid : SessionStop("mouseup", p)

SpecShapes == Init /\ [][ShapesNext]_vars

----------------------------------------------------------------------------
\* Properties.

\* C1: after N completed operations from the blank canvas, N calls of undo
\* (each restoration completing) leave the canvas blank, and N calls of redo
\* after them leave it as it was after the N-th operation.
UndoRedoAreInverses ==
    /\ (phase = "undo" /\ nUndo = nOps /\ pending = <<>>) => surface = Blank
    /\ (phase = "redo" /\ nRedo = nOps /\ pending = <<>>) => surface = afterOps

\* C2: whenever the session is idle after a completed operation and no
\* restoration is pending, the canvas equals the last entry of the history.
IdleShowsLastCommitted ==
    (~isDrawing /\ pending = <<>> /\ nOps >= 1) =>
        (history # <<>> /\ ToDataURL(viewport, surface) = Last(history))

\* C3: an operation completed after an undo that changed the canvas leaves
\* the redo stack empty, and the redo that follows starts no restoration and
\* leaves the canvas as the operation left it.
NewOperationClearsRedo ==
    /\ (phase = "reop" /\ ~isDrawing /\ afterOps # atDown) => redoStack = <<>>
    /\ (phase = "reredo" /\ afterOps # atDown) =>
            (pending = <<>> /\ surface = afterOps)

\* C4: one undo right after a completed operation that changed the canvas,
\* its restoration completed, shows the canvas as it was at that operation's
\* mousedown.
UndoRestoresPreOperation ==
    (phase = "undo" /\ nUndo = 1 /\ pending = <<>> /\ afterOps # atDown) =>
        surface = atDown

\* C5: when restorations were requested while an earlier one was still
\* decoding, then once all have completed the canvas shows the snapshot
\* requested last, which undo and redo leave as the last entry of the history.
LastRequestedWins ==
    (phase = "race" /\ pending = <<>>) => surface = DecodeImage(Last(history))

\* C6: a saveHistory() call whose encoding of the canvas equals the last
\* entry of the history changes neither the history nor the redo stack; the
\* call of startDrawing encodes the canvas as it is, the call of stopDrawing
\* encodes it after the commit.
SaveOfLastEntryIsNoOp ==
    [][/\ (/\ lastEvent' = "mousedown"
           /\ history # <<>>
           /\ ToDataURL(viewport, surface) = Last(history))
          => (history' = history /\ redoStack' = redoStack)
       /\ (/\ lastEvent' \in {"mouseup", "mouseout"}
           /\ isDrawing
           /\ startPos # Null
           /\ history # <<>>
           /\ ToDataURL(viewport', surface') = Last(history))
          => (history' = history /\ redoStack' = redoStack)]_vars

\* Witness of C6: a mousedown whose save found the canvas equal to the last
\* entry and kept a non-empty redo stack.
SaveKeptRedoStack ==
    /\ lastEvent = "mousedown"
    /\ redoStack # <<>>
    /\ history # <<>>
    /\ ToDataURL(viewport, surface) = Last(history)

\* C7 as stated: after the mount the history is never empty and its first
\* entry is the blank snapshot.
HistoryNeverEmpty ==
    history # <<>> /\ DecodeImage(history[1]) = Blank

\* C7 amended: the history is empty until the first mousedown; every
\* mousedown leaves it non-empty; once non-empty its first entry is the blank
\* snapshot and no event, undo included, removes or replaces that entry.
FirstEntryIsBlankAndStays ==
    [][/\ history # <<>> =>
            /\ DecodeImage(history[1]) = Blank
            /\ history' # <<>>
            /\ history'[1] = history[1]
       /\ history = <<>> => (history' = <<>> \/ lastEvent' = "mousedown")
       /\ lastEvent' = "mousedown" =>
            (history' # <<>> /\ DecodeImage(history'[1]) = Blank)]_vars

\* Witness of C7: an undo that took the history down to its first entry.
UndoReachedFirstEntry ==
    /\ lastEvent = "undo"
    /\ Len(history) = 1
    /\ redoStack # <<>>
    /\ DecodeImage(history[1]) = Blank

\* C8: undo() with at most one entry in the history, and redo() with an empty
\* redo stack, change nothing, start no restoration and throw nothing.
UndoRedoAtFloorAreNoOps ==
    [][/\ (lastEvent' = "undo" /\ Len(history) <= 1)
          => (UNCHANGED <<stateVars, canvasVars>> /\ fault' = FALSE)
       /\ (lastEvent' = "redo" /\ Len(redoStack) = 0)
          => (UNCHANGED <<stateVars, canvasVars>> /\ fault' = FALSE)]_vars

\* Witness of C8: an undo called on a painted canvas with one history entry:
\* an undo that acted would have left the redo stack non-empty.
UndoIgnoredAtFloor ==
    /\ lastEvent = "undo"
    /\ Len(history) = 1
    /\ redoStack = <<>>
    /\ surface # Blank

\* C9: a mouseup or mouseout while nothing is being drawn changes nothing
\* and throws nothing.
StopWhileIdleIsNoOp ==
    [][(lastEvent' \in {"mouseup", "mouseout"} /\ ~isDrawing)
          => (UNCHANGED <<stateVars, canvasVars>> /\ fault' = FALSE)]_vars

\* Witness of C9: the pointer leaves the canvas before any mousedown.
PointerPassedOver ==
    /\ lastEvent = "mouseout"
    /\ ~isDrawing
    /\ history = <<>>
    /\ ~fault

\* C10: an export, here one made while the session is idle after a completed
\* operation with no restoration pending, yields the last entry of the
\* history.
ExportIsLastCommitted ==
    (lastEvent = "export" /\ nOps >= 1) => exported = Last(history)

\* C11: the preview overlay reaches neither an exported image nor a history
\* entry: an export yields the encoding of the canvas alone, the entry a
\* mousedown appends is the encoding of the canvas alone, and the entry a
\* mouseup or mouseout appends is the encoding of the canvas with the shape
\* committed from the anchor and the release point.
OverlayNeverExported ==
    [][/\ lastEvent' = "export" => exported' = ToDataURL(viewport, surface)
       /\ (lastEvent' = "mousedown" /\ Len(history') > Len(history))
          => Last(history') = ToDataURL(viewport, surface)
       /\ (lastEvent' \in {"mouseup", "mouseout"} /\ Len(history') > Len(history))
          => \E p \in Points :
                Last(history') = ToDataURL(viewport, Commit(startPos, p))]_vars

\* Witness of C11: an export during anchoring, the overlay showing an outline
\* over a sample point that is transparent in the exported image.
ExportedUnderPreview ==
    /\ lastEvent = "export"
    /\ isDrawing
    /\ startPos # Null
    /\ \E c \in OverlayPoints(Last(overlays)) : exported.px[c] = Transparent

\* C12: after a mousemove during anchoring the preview the user sees is one
\* shape, the one from the anchor to the pointer: the current overlay holds
\* that shape and no other overlay of the document shows an outline.
PreviewIsOneShape ==
    (/\ lastEvent = "mousemove"
     /\ isDrawing
     /\ mode \in {"rectangle", "circle"}
     /\ startPos # Null)
    => /\ \E p \in Points : Last(overlays) = Preview(startPos, p)
       /\ \A i \in 1..(Len(overlays) - 1) : OverlayPoints(overlays[i]) = {}

\* The distance from c to the outline of the box with opposite corners a and
\* r is at most lw / 2; a box with a = r has no outline.
NearBox(c, a, r, lw) ==
    LET x0 == IF a.x < r.x THEN a.x ELSE r.x
        x1 == IF a.x < r.x THEN r.x ELSE a.x
        y0 == IF a.y < r.y THEN a.y ELSE r.y
        y1 == IF a.y < r.y THEN r.y ELSE a.y
        dx == IF c.x < x0 THEN x0 - c.x ELSE IF c.x > x1 THEN c.x - x1 ELSE 0
        dy == IF c.y < y0 THEN y0 - c.y ELSE IF c.y > y1 THEN c.y - y1 ELSE 0
        ix == IF c.x - x0 < x1 - c.x THEN c.x - x0 ELSE x1 - c.x
        iy == IF c.y - y0 < y1 - c.y THEN c.y - y0 ELSE y1 - c.y
        in == IF ix < iy THEN ix ELSE iy
    IN  /\ a # r
        /\ IF dx = 0 /\ dy = 0
           THEN 2 * in <= lw
           ELSE 4 * (Sq(dx) + Sq(dy)) <= Sq(lw)

\* C13: a rectangle committed with anchor A and release R paints the outline
\* of the box with corners A and R, whatever the signs of R.x - A.x and
\* R.y - A.y: the same points as the rectangle with anchor R and release A.
RectangleIsDirectionAgnostic ==
    [][\A r \in Grid :
        (/\ isDrawing
         /\ mode = "rectangle"
         /\ startPos # Null
         /\ StopDrawing("mouseup", r))
        => /\ surface' = Paint(surface,
                               RectPoints(r, startPos.x - r.x, startPos.y - r.y,
                                          ctx.lineWidth),
                               ctx.strokeStyle)
           /\ \A c \in Points :
                surface'[c] = IF NearBox(c, startPos, r, ctx.lineWidth)
                              THEN ctx.strokeStyle
                              ELSE surface[c]]_vars

\* Witness of C13: a rectangle committed on the blank canvas that painted one
\* sample point and not the other.
RectangleCommitted ==
    /\ lastEvent = "mouseup"
    /\ mode = "rectangle"
    /\ nOps = 1
    /\ atDown = Blank
    /\ \E c, d \in Points : surface[c] = Transparent /\ surface[d] # Transparent

\* C14: a mousemove at p in erase mode during an operation, the brush size
\* being S, makes transparent every sample point of the square of side S whose
\* top-left corner is (p.x - S/2, p.y - S/2) and changes no other sample point
\* (coordinates doubled to stay in the integers).
EraserClearsCenteredSquare ==
    [][\A p \in Grid :
        (isDrawing /\ mode = "erase" /\ Draw(p))
        => \A c \in Points :
            LET left2 == 2 * p.x - brushSize
                top2 == 2 * p.y - brushSize
                inside == /\ left2 <= 2 * c.x /\ 2 * c.x <= left2 + 2 * brushSize
                          /\ top2 <= 2 * c.y /\ 2 * c.y <= top2 + 2 * brushSize
            IN  surface'[c] = IF inside THEN Transparent ELSE surface[c]]_vars

\* Witness of C14: an eraser move over a canvas painted at every sample point
\* that cleared one sample point and left another painted.
EraserClearedOnePoint ==
    /\ lastEvent = "mousemove"
    /\ isDrawing
    /\ mode = "erase"
    /\ \A c \in Points : atDown[c] # Transparent
    /\ \E c, d \in Points : surface[c] = Transparent /\ surface[d] # Transparent

\* C15: a circle committed with anchor A and release R paints the circle
\* around A whose squared radius is (R.x - A.x)^2 + (R.y - A.y)^2: the sample
\* points whose distance from A differs from that radius by at most half the
\* line width, and no others.
CircleRadiusIsDistance ==
    [][\A r \in Grid :
        (/\ isDrawing
         /\ mode = "circle"
         /\ startPos # Null
         /\ StopDrawing("mouseup", r))
        => LET r2 == Sq(r.x - startPos.x) + Sq(r.y - startPos.y)
           IN  \A c \in Points :
                surface'[c] = IF NearCircle(c, startPos, r2, ctx.lineWidth)
                              THEN ctx.strokeStyle
                              ELSE surface[c]]_vars

\* Witness of C15: a circle committed on the blank canvas that painted the
\* points that the circle with anchor (0, 0) and release (3, 4), of radius 5,
\* covers, and left the others transparent.
CircleCommitted ==
    /\ lastEvent = "mouseup"
    /\ mode = "circle"
    /\ nOps = 1
    /\ atDown = Blank
    /\ Dist2([x |-> 0, y |-> 0], [x |-> 3, y |-> 4]) = Sq(5)
    /\ ctx.inked = CirclePoints([x |-> 0, y |-> 0], Sq(5), brushSize)
    /\ surface = Paint(Blank, ctx.inked, brushColor)
    /\ \E c, d \in Points : surface[c] = Transparent /\ surface[d] # Transparent

\* C16: undo(), redo() and the completion of the restorations they start
\* leave the mode, the brush colour, the brush size and the anchor unchanged.
UndoRedoKeepToolState ==
    [][lastEvent' \in {"undo", "redo", "load"}
          => UNCHANGED <<mode, brushColor, brushSize, startPos, isDrawing>>]_vars

\* Witness of C16: an undo that acted during anchoring in a mode other than
\* the initial one.
UndoDuringAnchoring ==
    /\ lastEvent = "undo"
    /\ redoStack # <<>>
    /\ pending # <<>>
    /\ mode = "circle"
    /\ startPos # Null

\* C17: a window resize leaves the canvas blank and leaves the history and
\* the redo stack as they were.
ResizeClearsCanvasOnly ==
    [][lastEvent' = "resize"
          => (surface' = Blank /\ UNCHANGED <<history, redoStack>>)]_vars

\* Witness of C17: a resize that blanked a painted canvas whose painted
\* snapshot is still the last entry of the history.
ResizeBlankedPaintedCanvas ==
    /\ lastEvent = "resize"
    /\ surface = Blank
    /\ Len(history) > 1
    /\ DecodeImage(Last(history)) # Blank

\* C18: no sequence of pointer events, undo, redo and mode switches (a mode
\* switch being accepted at any time) makes a handler read the coordinates of
\* a null anchor: no handler throws.
NoGeometryFromNullAnchor == ~fault

\* C19: during an operation the canvas is changed only by the operation's
\* own rendering: the completion of a restoration requested before the
\* mousedown leaves the canvas as the operation has painted it.
RestorationSparesOperation ==
    [][(phase = "overlap" /\ isDrawing /\ lastEvent' = "load")
          => surface' = surface]_vars

\* C20: during anchoring a mousemove leaves the canvas, the history and the
\* redo stack unchanged and replaces the content of the current overlay by
\* the preview from the anchor to the pointer; the canvas stays as it was at
\* the mousedown until the mouseup or mouseout.
AnchoringMovesOnlyOverlay ==
    [][/\ \A p \in Grid :
            (/\ isDrawing
             /\ mode \in {"rectangle", "circle"}
             /\ startPos # Null
             /\ Draw(p))
            => /\ UNCHANGED <<surface, history, redoStack, startPos>>
               /\ Last(overlays') = Preview(startPos, p)
       /\ (isDrawing' /\ mode' \in {"rectangle", "circle"})
            => surface' = atDown']_vars

\* Witness of C20: a mousemove during anchoring after which the overlay shows
\* an outline over a sample point and the canvas is still blank.
PreviewOverBlankCanvas ==
    /\ lastEvent = "mousemove"
    /\ isDrawing
    /\ mode \in {"rectangle", "circle"}
    /\ startPos # Null
    /\ OverlayPoints(Last(overlays)) # {}
    /\ surface = Blank

\* C21: whenever no operation is in progress, no overlay of the document
\* shows preview content: every overlay created by a setupCanvas call, the
\* current one and the earlier ones, is empty at the sample points.
IdleOverlaysAreEmpty ==
    ~isDrawing => \A i \in 1..Len(overlays) : OverlayPoints(overlays[i]) = {}

\* C22: the anchor is non-null only while an operation is in progress: in
\* every state with no operation in progress the anchor is null, and a
\* mousedown in draw or erase mode leaves the anchor as it was.
AnchorOnlyDuringOperation ==
    /\ [](~isDrawing => startPos = Null)
    /\ [][(lastEvent' = "mousedown" /\ mode \in {"draw", "erase"})
             => startPos' = startPos]_vars

\* Witness of C22: the session idle right after a mouseup that committed a
\* shape from its anchor, the anchor null again.
AnchorConsumedByCommit ==
    /\ lastEvent = "mouseup"
    /\ ~isDrawing
    /\ mode \in {"rectangle", "circle"}
    /\ surface # Blank
    /\ Len(history) > 1
    /\ startPos = Null

\* C23: undo() and redo() only move the split point of one sequence: an
\* undo with more than one entry in the history, and a redo with a non-empty
\* redo stack, leave the history followed by the redo stack the same
\* sequence; the undo shortens the history by one entry, the redo lengthens
\* it by one.
UndoRedoMoveSplitPoint ==
    [][/\ (lastEvent' = "undo" /\ Len(history) > 1)
          => /\ history' \o redoStack' = history \o redoStack
             /\ Len(history') = Len(history) - 1
       /\ (lastEvent' = "redo" /\ Len(redoStack) > 0)
          => /\ history' \o redoStack' = history \o redoStack
             /\ Len(history') = Len(history) + 1]_vars

\* Witness of C23: an undo that acted with entries on both sides of the split
\* point: it left two entries in the redo stack, the history still holding
\* its first.
SplitPointMovedBack ==
    /\ lastEvent = "undo"
    /\ Len(redoStack) = 2
    /\ redoStack[1] # redoStack[2]
    /\ Len(history) >= 1
    /\ pending # <<>>

\* C24: in every state the history holds no two adjacent equal snapshots,
\* and its last entry differs from the front entry of the redo stack, after
\* any interleaving of drawing operations, undo, redo and window resizes.
NoAdjacentEqualSnapshots ==
    /\ \A i \in 1..(Len(history) - 1) : history[i] # history[i + 1]
    /\ (history # <<>> /\ redoStack # <<>>) => Last(history) # redoStack[1]

\* Witness of C24: after a window resize, a redo that appended an entry to a
\* history of at least one entry and left another entry in the redo stack.
RedoAppendedAfterResize ==
    /\ lastEvent = "redo"
    /\ Len(overlays) > 1
    /\ Len(history) >= 2
    /\ redoStack # <<>>
    /\ pending # <<>>

\* C25: the shape a mouseup commits to the canvas has the geometry, the
\* colour and the line width of the preview that a mousemove at the release
\* point draws on the overlay for the same anchor and mode: the same rectangle
\* origin and signed width and height, the same circle centre and radius.
\* The canvas after the mouseup is the canvas before it with that shape
\* stroked.
CommitMatchesPreview ==
    [][\A r \in Points :
        (/\ isDrawing
         /\ mode \in {"rectangle", "circle"}
         /\ startPos # Null
         /\ StopDrawing("mouseup", r))
        => LET s == CommitShape(startPos, r)
               a == [x |-> s.x, y |-> s.y]
           IN  /\ surface' = Paint(surface,
                                   IF s.kind = "rectangle"
                                   THEN RectPoints(a, s.w, s.h, s.lineWidth)
                                   ELSE CirclePoints(a, s.r2, s.lineWidth),
                                   s.color)
               /\ s = Preview(startPos, r)]_vars

====
